---------------------------- MODULE Spec2Model ----------------------------
(***************************************************************************)
(* A model of the organizing engine of py-organizer                        *)
(* (src/file_organizer.py): FileOrganizer.organize with its filter, year   *)
(* resolver, duplicate resolver and mover, run over an explicit file       *)
(* system, with cancel() arriving from another thread.                     *)
(*                                                                         *)
(* A name is a sequence of tokens: "." is a token of its own, every other  *)
(* token is a maximal run of characters without a dot, so that pathlib's   *)
(* stem/suffix split is computed and not assumed.  A path is a sequence of *)
(* names.  The file system maps each existing path to its entry.           *)
(***************************************************************************)
EXTENDS Integers, Sequences, FiniteSets, TLC

VARIABLES
    fs,                 \* the file system: path -> entry
    cfg,                \* OrganizerConfig and the log sink (read-only after construction)
    stats,              \* FileOrganizer.stats (OrganizerStats)
    cancelled,          \* FileOrganizer._cancelled
    pc,                 \* where organize() stands
    items,              \* organize: the listing of source_dir
    fpos,               \* organize: position of the filter loop in items
    items_to_process,   \* organize: the kept list of <<name, is_dir>>
    idx,                \* organize: enumerate() index of the process loop
    runsLeft,           \* how many more organize() calls the caller makes
    \* observation of the run (not read by the program)
    fs0,                \* the file system when the current organize() began
    listing,            \* whether this run's listing of source_dir raised
    calls,              \* one record per move_item() invocation of this run
    progress,           \* the (current, total) pairs given to the progress sink
    run,                \* number of organize() calls begun so far
    prev,               \* what the previous organize() call left behind
    cancelAt            \* where the run stood when cancel() set the flag

vars == <<fs, cfg, stats, cancelled, pc, items, fpos, items_to_process, idx,
          runsLeft, fs0, listing, calls, progress, run, prev, cancelAt>>

---------------------------------------------------------------------------
(* Bounds of the model *)

\* at most this many entries directly under source_dir at construction
MaxItems == 2
\* at most this many entries already present in the target's year directory
MaxPre == 2
\* at most this many of the five filter options are set in one configuration
MaxFilters == 1
\* the caller invokes organize() at most this many times on one engine
MaxRuns == 2
\* at most this many entries directly under source_dir where organize() is
\* invoked more than once
MaxItemsRerun == 1
\* at most this many filter options are set where a dry run is followed by
\* the real run
MaxFiltersDryFirst == 0
\* at most this many entries already present in the target's year directory
\* where a dry run is followed by the real run
MaxPreDryFirst == 1
\* at most this many filter options are set, and at most this many entries
\* are already present in the target's year directory, where the filter
\* options are combined
MaxFiltersCombined == 2
MaxPreCombined == 0
\* at most this many entries are already present in the target's year
\* directory where the log sink may fail
MaxPreSink == 0
\* at most this many entries are already present in the target's year
\* directory where names carry dots and upper-case extensions
MaxPreDotted == 1

---------------------------------------------------------------------------
(* Names *)

Last(s) == s[Len(s)]

\* str.__add__ on a name: characters without a dot appended to a name
AppendStr(name, s) ==
    IF Len(name) > 0 /\ Last(name) # "."
    THEN [name EXCEPT ![Len(name)] = @ \o s]
    ELSE Append(name, s)

\* the concatenation of two names' characters
Concat(a, b) ==
    IF Len(b) = 0 THEN a
    ELSE IF b[1] = "." THEN a \o b
    ELSE AppendStr(a, b[1]) \o Tail(b)

\* index of the last "." token of a name (str.rfind), 0 when there is none
RECURSIVE RFindDot(_, _)
RFindDot(name, i) ==
    IF i = 0 THEN 0
    ELSE IF name[i] = "." THEN i
    ELSE RFindDot(name, i - 1)

\* PurePath.suffix: from the last dot, unless that dot is the first or the
\* last character of the name
Suffix(name) ==
    LET i == RFindDot(name, Len(name))
    IN  IF 1 < i /\ i < Len(name) THEN SubSeq(name, i, Len(name)) ELSE <<>>

\* PurePath.stem: the name without its suffix
Stem(name) == SubSeq(name, 1, Len(name) - Len(Suffix(name)))

\* str.lstrip('.') of a suffix
RECURSIVE LStripDot(_)
LStripDot(s) == IF Len(s) > 0 /\ s[1] = "." THEN LStripDot(Tail(s)) ELSE s

Digit(d) ==
    CASE d = 0 -> "0" [] d = 1 -> "1" [] d = 2 -> "2" [] d = 3 -> "3"
      [] d = 4 -> "4" [] d = 5 -> "5" [] d = 6 -> "6" [] d = 7 -> "7"
      [] d = 8 -> "8" [] d = 9 -> "9"

\* str(int) of a natural number
RECURSIVE ToStr(_)
ToStr(n) == IF n < 10 THEN Digit(n) ELSE ToStr(n \div 10) \o Digit(n % 10)

\* a two-digit field of strftime (%m, %d, %H, %M, %S)
Pad2(n) == IF n < 10 THEN "0" \o ToStr(n) ELSE ToStr(n)

\* the names the filter never lets through
ReservedNames ==
    { <<"org_docs", ".", "sh">>,
      <<"org_docs_gui", ".", "py">>,
      <<"file_organizer", ".", "py">> }

---------------------------------------------------------------------------
(* Time.  A modification time is [year, sec]: second sec of 1 January of   *)
(* year, 00:00.                                                            *)

MTime(y, s) == [year |-> y, sec |-> s]

\* the wall clock during the runs: what a directory's mtime becomes when an
\* entry is added to it or removed from it
Now == MTime(2021, 30)

\* strftime("%Y%m%d_%H%M%S")
Strftime(t) ==
    ToStr(t.year) \o Pad2(1) \o Pad2(1) \o "_" \o Pad2(0) \o Pad2(0) \o Pad2(t.sec)

---------------------------------------------------------------------------
(* The file system *)

File(id, t)   == [kind |-> "file", id |-> id, mtime |-> t, broken |-> FALSE]
Dir(id, t)    == [kind |-> "dir",  id |-> id, mtime |-> t, broken |-> FALSE]
\* an entry the listing shows and stat() fails on (a dangling link)
Broken(id, t) == [kind |-> "file", id |-> id, mtime |-> t, broken |-> TRUE]
\* a directory made by mkdir during a run
NewDir == Dir(0, Now)

IsPrefix(a, b) == Len(a) <= Len(b) /\ SubSeq(b, 1, Len(a)) = a
Parent(p) == SubSeq(p, 1, Len(p) - 1)

\* Path.exists, Path.is_dir
Exists(f, p) == p \in DOMAIN f /\ ~f[p].broken
IsDir(f, p)  == p \in DOMAIN f /\ f[p].kind = "dir"

\* the directory p gets a new modification time
Touch(f, p) == IF p \in DOMAIN f THEN [f EXCEPT ![p].mtime = Now] ELSE f

\* os.mkdir of a path that does not exist, in an existing directory
MkdirAt(f, p) == Touch(f @@ (p :> NewDir), Parent(p))

\* os.rename(src, dst) where it succeeds: the tree at src becomes the tree
\* at dst, replacing what was at dst
RenameAt(f, src, dst) ==
    LET moved  == {p \in DOMAIN f : IsPrefix(src, p)}
        gone   == {p \in DOMAIN f : IsPrefix(dst, p)}
        to(p)  == dst \o SubSeq(p, Len(src) + 1, Len(p))
        stay   == (DOMAIN f \ moved) \ gone
        g      == [q \in stay \cup {to(p) : p \in moved} |->
                     IF q \in stay THEN f[q]
                     ELSE f[CHOOSE p \in moved : to(p) = q]]
    IN  Touch(Touch(g, Parent(src)), Parent(dst))


\* shutil.move(src, dst): [ok, fs].  A destination that is a directory takes
\* the source inside it; otherwise os.rename, which replaces a file by a
\* file, cannot put a directory in place of a file (copytree's makedirs
\* raises) and cannot move a directory into itself.
ShutilMove(f, src, dst) ==
    LET real_dst == IF IsDir(f, dst) THEN Append(dst, Last(src)) ELSE dst
        raise    == [ok |-> FALSE, fs |-> f]
    IN  IF IsDir(f, dst) /\ real_dst \in DOMAIN f THEN raise
        ELSE IF IsDir(f, src) /\ IsPrefix(src, dst) THEN raise
        ELSE IF IsDir(f, src) /\ real_dst \in DOMAIN f THEN raise
        ELSE [ok |-> TRUE, fs |-> RenameAt(f, src, real_dst)]

\* Path.mkdir(parents=True, exist_ok=True) of a directory whose parent
\* exists: [ok, fs]
Mkdir(f, p) ==
    IF p \in DOMAIN f
    THEN [ok |-> IsDir(f, p), fs |-> f]
    ELSE [ok |-> TRUE, fs |-> MkdirAt(f, p)]

---------------------------------------------------------------------------
(* The engine's pure parts *)

\* Python's None where a year is expected; also what "if target_year:"
\* takes for unset
None == 0

\* no path (handle_duplicate's None)
NoPath == <<>>

Modes == {"interactive", "skip", "rename", "overwrite"}

ZeroStats ==
    [files_moved |-> 0, files_renamed |-> 0, files_skipped |-> 0,
     dirs_moved |-> 0, errors |-> 0]

\* a resolver that takes any year the modification time shows
GetItemYearAnyYear(f, path) ==
    IF path \notin DOMAIN f \/ f[path].broken THEN None
    ELSE f[path].mtime.year

\* FileOrganizer.get_item_year
get_item_year(f, path) ==
    IF path \notin DOMAIN f \/ f[path].broken THEN None
    ELSE LET year == f[path].mtime.year
         IN  IF 1900 <= year /\ year <= 2100 THEN year ELSE None

\* a filter that knows no reserved names
IsScriptFileNever(name) == FALSE

\* should_process_item: "Skip script files"
IsScriptFile(name) == name \in ReservedNames

\* a filter that consults the deny-list before the allow-list
ShouldProcessDenyFirst(f, c, item, is_directory) ==
    LET name == Last(item)
    IN  IF IsScriptFile(name) THEN FALSE
        ELSE IF is_directory /\ c.files_only THEN FALSE
        ELSE IF is_directory /\ c.excluded_folders # {}
                /\ name \in c.excluded_folders THEN FALSE
        ELSE IF is_directory /\ c.included_folders # {}
             THEN name \in c.included_folders
        ELSE IF ~is_directory /\ c.file_types # {}
                /\ LStripDot(Suffix(name)) \notin c.file_types THEN FALSE
        ELSE IF c.target_year # None
                /\ get_item_year(f, item) # c.target_year THEN FALSE
        ELSE TRUE

\* a filter that consults the allow-list before the files-only flag
ShouldProcessAllowFirst(f, c, item, is_directory) ==
    LET name == Last(item)
    IN  IF IsScriptFile(name) THEN FALSE
        ELSE IF is_directory /\ c.included_folders # {}
             THEN name \in c.included_folders
        ELSE IF is_directory /\ c.files_only THEN FALSE
        ELSE IF is_directory /\ c.excluded_folders # {}
                /\ name \in c.excluded_folders THEN FALSE
        ELSE IF ~is_directory /\ c.file_types # {}
                /\ LStripDot(Suffix(name)) \notin c.file_types THEN FALSE
        ELSE IF c.target_year # None
                /\ get_item_year(f, item) # c.target_year THEN FALSE
        ELSE TRUE

\* a filter that puts the extension test to directories as well
ShouldProcessExtForAll(f, c, item, is_directory) ==
    LET name == Last(item)
    IN  IF IsScriptFile(name) THEN FALSE
        ELSE IF is_directory /\ c.files_only THEN FALSE
        ELSE IF is_directory /\ c.included_folders # {}
             THEN name \in c.included_folders
        ELSE IF is_directory /\ c.excluded_folders # {}
                /\ name \in c.excluded_folders THEN FALSE
        ELSE IF c.file_types # {}
                /\ LStripDot(Suffix(name)) \notin c.file_types THEN FALSE
        ELSE IF c.target_year # None
                /\ get_item_year(f, item) # c.target_year THEN FALSE
        ELSE TRUE


\* FileOrganizer.should_process_item
should_process_item(f, c, item, is_directory) ==
    LET name == Last(item)
    IN  IF IsScriptFile(name) THEN FALSE
        ELSE IF is_directory /\ c.files_only THEN FALSE
        ELSE IF is_directory /\ c.included_folders # {}
             THEN name \in c.included_folders
        ELSE IF is_directory /\ c.excluded_folders # {}
                /\ name \in c.excluded_folders THEN FALSE
        ELSE IF ~is_directory /\ c.file_types # {}
                /\ LStripDot(Suffix(name)) \notin c.file_types THEN FALSE
        ELSE IF c.target_year # None
                /\ get_item_year(f, item) # c.target_year THEN FALSE
        ELSE TRUE

\* handle_duplicate, rename mode: the name tried with a given counter
\* (0: the first candidate, without a counter)
RenameCandidate(stem, timestamp, suffix, counter) ==
    LET base == AppendStr(stem, "_" \o timestamp)
    IN  Concat(IF counter = 0 THEN base
               ELSE AppendStr(base, "_" \o ToStr(counter)),
               suffix)

\* a rename that takes its candidate without looking whether it exists
EnsureUniqueUnchecked(f, parent, stem, timestamp, suffix, counter) ==
    Append(parent, RenameCandidate(stem, timestamp, suffix, counter))

\* handle_duplicate, rename mode: the "while new_dest.exists()" loop, at
\* the candidate with the given counter
RECURSIVE EnsureUnique(_, _, _, _, _, _)
EnsureUnique(f, parent, stem, timestamp, suffix, counter) ==
    LET new_dest == Append(parent, RenameCandidate(stem, timestamp, suffix, counter))
    IN  IF Exists(f, new_dest)
        THEN EnsureUnique(f, parent, stem, timestamp, suffix, counter + 1)
        ELSE new_dest

\* a resolver that counts nothing in a dry run
HandleDuplicateDryUncounted(f, c, src, dest) ==
    LET count(n) == IF c.dry_run THEN 0 ELSE n
    IN  IF c.duplicate_mode = "skip"
        THEN [should_move |-> FALSE, new_dest |-> NoPath,
              renamed |-> 0, skipped |-> count(1)]
        ELSE IF c.duplicate_mode = "overwrite"
        THEN [should_move |-> TRUE, new_dest |-> dest, renamed |-> 0, skipped |-> 0]
        ELSE IF c.duplicate_mode = "rename"
        THEN [should_move |-> TRUE,
              new_dest |-> EnsureUnique(f, Parent(dest), Stem(Last(dest)),
                                        Strftime(f[src].mtime), Suffix(Last(dest)), 0),
              renamed |-> count(1), skipped |-> 0]
        ELSE [should_move |-> FALSE, new_dest |-> NoPath,
              renamed |-> 0, skipped |-> count(1)]

\* a resolver whose last branch renames where it should skip
HandleDuplicateInteractiveRenames(f, c, src, dest) ==
    IF c.duplicate_mode = "skip"
    THEN [should_move |-> FALSE, new_dest |-> NoPath, renamed |-> 0, skipped |-> 1]
    ELSE IF c.duplicate_mode = "overwrite"
    THEN [should_move |-> TRUE, new_dest |-> dest, renamed |-> 0, skipped |-> 0]
    ELSE [should_move |-> TRUE,
          new_dest |-> EnsureUnique(f, Parent(dest), Stem(Last(dest)),
                                    Strftime(f[src].mtime), Suffix(Last(dest)), 0),
          renamed |-> 1, skipped |-> 0]

\* a resolver whose skip branch counts the item as skipped and lets the
\* move go on to the taken destination
HandleDuplicateSkipProceeds(f, c, src, dest) ==
    IF c.duplicate_mode = "rename"
    THEN [should_move |-> TRUE,
          new_dest |-> EnsureUnique(f, Parent(dest), Stem(Last(dest)),
                                    Strftime(f[src].mtime), Suffix(Last(dest)), 0),
          renamed |-> 1, skipped |-> 0]
    ELSE [should_move |-> TRUE, new_dest |-> dest, renamed |-> 0,
          skipped |-> IF c.duplicate_mode = "overwrite" THEN 0 ELSE 1]

\* FileOrganizer.handle_duplicate: the decision and the counters it adds
handle_duplicate(f, c, src, dest) ==
    IF c.duplicate_mode = "skip"
    THEN [should_move |-> FALSE, new_dest |-> NoPath, renamed |-> 0, skipped |-> 1]
    ELSE IF c.duplicate_mode = "overwrite"
    THEN [should_move |-> TRUE, new_dest |-> dest, renamed |-> 0, skipped |-> 0]
    ELSE IF c.duplicate_mode = "rename"
    THEN [should_move |-> TRUE,
          new_dest |-> EnsureUnique(f, Parent(dest), Stem(Last(dest)),
                                    Strftime(f[src].mtime), Suffix(Last(dest)), 0),
          renamed |-> 1, skipped |-> 0]
    ELSE [should_move |-> FALSE, new_dest |-> NoPath, renamed |-> 0, skipped |-> 1]

\* the year directory's name: str(year)
YearName(year) == <<ToStr(year)>>

\* a mover that never finds its destination taken
DestTakenNever(f, dest) == FALSE

\* move_item: "if dest.exists()"
DestTaken(f, dest) == Exists(f, dest)

\* a mover that does not consult the dry-run flag
SimulateNever(c) == FALSE

\* move_item: "if self.config.dry_run"
Simulate(c) == c.dry_run

\* an item without a date that no counter records
CountNoDateUncounted(st) == st


\* move_item: the counter of an item without a date
CountNoDate(st) == [st EXCEPT !.files_skipped = @ + 1]

\* the log sinks: one that returns normally, and one that raises when it is
\* given a message of level "error"
Sinks == {"ok", "fails_on_error"}

\* FileOrganizer.log: self.log_callback(message, level) raises
LogRaises(c, level) == c.log_callback = "fails_on_error" /\ level = "error"

\* an "except" that lets what the move raises through
CaughtUnlessMove(what) == what # "move"

\* move_item: "except Exception" catches whatever mkdir or the move raise
Caught(what) == TRUE

\* FileOrganizer.move_item on the file system f with the counters st, where
\* io says whether the environment lets mkdir and the move through:
\* [fs, stats, call], call being the observation of this invocation (its
\* outcome "raised": an exception left move_item, raised by the log call
\* of the "except" branch before the error is counted)
move_item(f, c, st, item, is_directory, io) ==
    LET year     == get_item_year(f, item)
        year_dir == Append(c.target_dir, YearName(year))
        dest0    == Append(year_dir, Last(item))
        dup      == DestTaken(f, dest0)
        hd       == handle_duplicate(f, c, item, dest0)
        st1      == IF dup
                    THEN [st EXCEPT !.files_renamed = @ + hd.renamed,
                                    !.files_skipped = @ + hd.skipped]
                    ELSE st
        dest     == IF dup /\ hd.should_move THEN hd.new_dest ELSE dest0
        made     == Mkdir(f, year_dir)
        mv       == ShutilMove(made.fs, item, dest)
        call(outcome, d) ==
            [name |-> Last(item), is_dir |-> is_directory,
             id |-> IF item \in DOMAIN f THEN f[item].id ELSE 0,
             year |-> year, collided |-> dup, dest |-> d, outcome |-> outcome]
        error(g, what) ==
            IF Caught(what) /\ ~LogRaises(c, "error")
            THEN [fs |-> g, stats |-> [st1 EXCEPT !.errors = @ + 1],
                  call |-> call("error", dest)]
            ELSE [fs |-> g, stats |-> st1, call |-> call("raised", dest)]
    IN  IF year = None
        THEN [fs |-> f, stats |-> CountNoDate(st),
              call |-> call("nodate", NoPath)]
        ELSE IF dup /\ ~hd.should_move
        THEN [fs |-> f, stats |-> st1, call |-> call("dupskip", NoPath)]
        ELSE IF Simulate(c)
        THEN [fs |-> f, stats |-> st1, call |-> call("dry", dest)]
        ELSE IF io = "mkdir_fails" \/ ~made.ok THEN error(f, "mkdir")
        ELSE IF io = "move_fails" \/ ~mv.ok THEN error(made.fs, "move")
        ELSE [fs |-> mv.fs,
              stats |-> IF is_directory
                        THEN [st1 EXCEPT !.dirs_moved = @ + 1]
                        ELSE [st1 EXCEPT !.files_moved = @ + 1],
              call |-> call("moved", dest)]

---------------------------------------------------------------------------
(* Construction: the configurations and the file systems the runs start in *)

SourceDir == << <<"inbox">> >>
OtherDir  == << <<"archive">> >>

NameA    == <<"a", ".", "txt">>
NameD    == <<"d">>
NameOld  == <<"old">>
NameLnk  == <<"lnk">>
Name2020 == YearName(2020)
\* what rename mode first tries for a.txt below
NameA1   == <<"a_20200101_000005", ".", "txt">>

\* candidate entries of source_dir: [name, entry, sub], sub the names of the
\* files inside a directory
SrcPool ==
    { [name |-> NameA,    entry |-> File(1, MTime(2020, 5)),   sub |-> {}],
      [name |-> NameD,    entry |-> Dir(3, MTime(2020, 7)),    sub |-> {<<"c">>}],
      [name |-> NameOld,  entry |-> File(4, MTime(1899, 8)),   sub |-> {}],
      [name |-> NameLnk,  entry |-> Broken(5, MTime(2020, 9)), sub |-> {}],
      [name |-> <<"file_organizer", ".", "py">>,
                          entry |-> File(6, MTime(2020, 10)),  sub |-> {}],
      [name |-> <<"org_docs", ".", "sh">>,
                          entry |-> Dir(7, MTime(2020, 11)),   sub |-> {}],
      [name |-> Name2020, entry |-> Dir(8, MTime(2020, 12)),   sub |-> {}] }

\* candidate entries already in the target's 2020 directory
PrePool ==
    { [name |-> NameA,  entry |-> File(11, MTime(2020, 1)), sub |-> {}],
      [name |-> NameA1, entry |-> File(12, MTime(2020, 2)), sub |-> {}],
      [name |-> NameD,  entry |-> Dir(13, MTime(2020, 3)),  sub |-> {<<"c">>}],
      [name |-> NameD,  entry |-> File(14, MTime(2020, 4)), sub |-> {}] }

\* the subsets of a pool with at most n entries, all of different names
Picks(pool, n) ==
    { S \in SUBSET pool :
        /\ Cardinality(S) <= n
        /\ \A x, y \in S : x.name = y.name => x = y }

\* the file system holding the picked entries under dir
Populate(dir, S) ==
    LET tops == {Append(dir, x.name) : x \in S}
        subs == UNION {{Append(Append(dir, x.name), c) : c \in x.sub} : x \in S}
    IN  [p \in tops \cup subs |->
           IF p \in tops
           THEN (CHOOSE x \in S : Append(dir, x.name) = p).entry
           ELSE File(20 + (CHOOSE x \in S : Append(dir, x.name) = Parent(p)).entry.id,
                     MTime(2020, 0))]

\* the file systems at construction: source_dir with its entries, the
\* target with, possibly, a 2020 directory holding earlier entries
InitialFs(target, S, P) ==
    LET ydir == Append(target, Name2020)
        base == (SourceDir :> Dir(100, MTime(2020, 0)))
                @@ (target :> Dir(101, MTime(2020, 0)))
        pre  == IF P = {} THEN << >>
                ELSE Populate(ydir, P) @@ (ydir :> Dir(102, MTime(2020, 0)))
    IN  Populate(SourceDir, S) @@ pre @@ base

\* the filter options of a configuration, and how many of them are set
FilterOptions ==
    [files_only       : BOOLEAN,
     included_folders : {{}, {NameD, <<"org_docs", ".", "sh">>}},
     excluded_folders : {{}, {NameD}},
     target_year      : {None, 2020},
     file_types       : {{}, {<<"txt">>, <<"py">>}}]

B2N(b) == IF b THEN 1 ELSE 0

NumSet(o) ==
    B2N(o.files_only) + B2N(o.included_folders # {}) + B2N(o.excluded_folders # {})
    + B2N(o.target_year # None) + B2N(o.file_types # {})

\* OrganizerConfig with __post_init__ applied (no target_dir means
\* source_dir), and with it the log sink the engine is constructed with
Configs ==
    { [source_dir |-> SourceDir, target_dir |-> t, dry_run |-> d,
       duplicate_mode |-> m, files_only |-> o.files_only,
       included_folders |-> o.included_folders,
       excluded_folders |-> o.excluded_folders,
       target_year |-> o.target_year, file_types |-> o.file_types,
       log_callback |-> "ok"] :
        t \in {SourceDir, OtherDir}, d \in BOOLEAN, m \in Modes,
        o \in {x \in FilterOptions : NumSet(x) <= MaxFilters} }

NoCancel == [pc |-> "none", moved |-> 0]
NoPrev   == [stats |-> ZeroStats, cancelled |-> FALSE]

\* FileOrganizer.__init__, on each configuration and file system
InitWith(C, S, P, runs) ==
    /\ cfg \in C
    /\ \E s \in S, p \in P : fs = InitialFs(cfg.target_dir, s, p)
    /\ stats = ZeroStats
    /\ cancelled = FALSE
    /\ pc = "idle"
    /\ items = << >>
    /\ fpos = 1
    /\ items_to_process = << >>
    /\ idx = 1
    /\ runsLeft = runs
    /\ fs0 = fs
    /\ listing = "none"
    /\ calls = << >>
    /\ progress = << >>
    /\ run = 0
    /\ prev = NoPrev
    /\ cancelAt = NoCancel

Init == InitWith(Configs, Picks(SrcPool, MaxItems), Picks(PrePool, MaxPre), 1)

---------------------------------------------------------------------------
(* organize(), step by step, and cancel() *)

\* the paths directly under a directory (Path.iterdir)
Children(f, dir) == {p \in DOMAIN f : Len(p) = Len(dir) + 1 /\ IsPrefix(dir, p)}

\* the orders in which a listing may come
Orders(S) ==
    {o \in [1..Cardinality(S) -> S] : \A i, j \in DOMAIN o : o[i] = o[j] => i = j}

\* an organize() that starts from the counters the last run left
ResetStatsKeeps(st) == st

\* organize: "self.stats = OrganizerStats()"
ResetStats(st) == ZeroStats

\* organize, up to the listing: the caller invokes organize(); the flag and
\* the counters are reset (the log lines have no effect on the state)
OrganizeStart ==
    /\ pc \in {"idle", "done"}
    /\ runsLeft > 0
    /\ runsLeft' = runsLeft - 1
    /\ cancelled' = FALSE
    /\ stats' = ResetStats(stats)
    /\ pc' = "enum"
    /\ items' = << >>
    /\ fpos' = 1
    /\ items_to_process' = << >>
    /\ idx' = 1
    /\ fs0' = fs
    /\ listing' = "none"
    /\ calls' = << >>
    /\ progress' = << >>
    /\ run' = run + 1
    /\ prev' = IF pc = "done"
               THEN [stats |-> stats,
                     cancelled |-> cancelled /\ cancelAt.pc # "done"]
               ELSE prev
    /\ cancelAt' = NoCancel
    /\ UNCHANGED <<fs, cfg>>

\* an early return that does not count the failure
OnListingErrorUncounted(st) == [stats |-> st, pc |-> "done"]

\* organize: what the "except" around the listing leaves: the counters and
\* where organize goes on
OnListingError(st) == [stats |-> [st EXCEPT !.errors = @ + 1], pc |-> "done"]

\* organize: items = list(source_dir.iterdir()), or the early return when
\* the listing raises (no such directory, or the environment refuses)
Enumerate ==
    /\ pc = "enum"
    /\ \E refused \in BOOLEAN :
         IF refused \/ ~IsDir(fs, cfg.source_dir)
         THEN /\ IF LogRaises(cfg, "error")
                 THEN pc' = "raised" /\ UNCHANGED stats
                 ELSE /\ stats' = OnListingError(stats).stats
                      /\ pc' = OnListingError(stats).pc
              /\ listing' = "failed"
              /\ UNCHANGED items
         ELSE /\ items' \in Orders(Children(fs, cfg.source_dir))
              /\ pc' = IF items' = << >> THEN "check" ELSE "filter"
              /\ listing' = "ok"
              /\ UNCHANGED stats
    /\ UNCHANGED <<fs, cfg, cancelled, fpos, items_to_process, idx, runsLeft,
                   fs0, calls, progress, run, prev, cancelAt>>

\* loops that do not look at the flag
CancelNeverSeen == FALSE

\* organize: "if self._cancelled", in both loops
CancelRequested == cancelled

\* organize: one turn of the filter loop, and the loop's end
FilterStep ==
    /\ pc = "filter"
    /\ IF CancelRequested
       THEN /\ pc' = "check"
            /\ UNCHANGED <<fpos, items_to_process>>
       ELSE LET item   == items[fpos]
                is_dir == IsDir(fs, item)
            IN  /\ items_to_process' =
                     IF should_process_item(fs, cfg, item, is_dir)
                     THEN Append(items_to_process, <<item, is_dir>>)
                     ELSE items_to_process
                /\ fpos' = fpos + 1
                /\ pc' = IF fpos = Len(items) THEN "check" ELSE "filter"
    /\ UNCHANGED <<fs, cfg, stats, cancelled, items, idx, runsLeft,
                   fs0, listing, calls, progress, run, prev, cancelAt>>

\* a progress report that counts the items from 0
UpdateProgressZeroBased(p, current, total) == Append(p, <<current - 1, total>>)

\* update_progress: the sink receives (current, total); p is what it has
\* received so far
update_progress(p, current, total) == Append(p, <<current, total>>)


\* organize: the head of one turn of the process loop (the cancellation
\* check and the progress report), and the loop's end
ProcessCheck ==
    /\ pc = "check"
    /\ IF idx > Len(items_to_process) \/ CancelRequested
       THEN /\ pc' = "summary"
            /\ UNCHANGED progress
       ELSE /\ progress' = update_progress(progress, idx, Len(items_to_process))
            /\ pc' = "move"
    /\ UNCHANGED <<fs, cfg, stats, cancelled, items, fpos, items_to_process, idx,
                   runsLeft, fs0, listing, calls, run, prev, cancelAt>>

\* what the environment may do to mkdir and to the move
IoOutcomes == {"ok", "mkdir_fails", "move_fails"}

\* organize: self.move_item(item, is_dir), whole
MoveItem ==
    /\ pc = "move"
    /\ \E io \in IoOutcomes :
         LET it == items_to_process[idx]
             r  == move_item(fs, cfg, stats, it[1], it[2], io)
         IN  /\ fs' = r.fs
             /\ stats' = r.stats
             /\ calls' = Append(calls, r.call)
             /\ pc' = IF r.call.outcome = "raised" THEN "raised" ELSE "check"
    /\ idx' = idx + 1
    /\ UNCHANGED <<cfg, cancelled, items, fpos, items_to_process, runsLeft,
                   fs0, listing, progress, run, prev, cancelAt>>

\* organize: the summary and the return
Summarize ==
    /\ pc = "summary"
    /\ pc' = IF stats.errors > 0 /\ LogRaises(cfg, "error") THEN "raised" ELSE "done"
    /\ UNCHANGED <<fs, cfg, stats, cancelled, items, fpos, items_to_process, idx,
                   runsLeft, fs0, listing, calls, progress, run, prev, cancelAt>>

\* FileOrganizer.cancel(), called from another thread at any time (after
\* the caller's last organize() has returned the flag is never read again,
\* and the call is left out)
Cancel ==
    /\ ~cancelled
    /\ pc = "done" => runsLeft > 0
    /\ cancelled' = TRUE
    /\ cancelAt' = [pc |-> pc, moved |-> Len(calls)]
    /\ UNCHANGED <<fs, cfg, stats, pc, items, fpos, items_to_process, idx,
                   runsLeft, fs0, listing, calls, progress, run, prev>>

Next ==
    \/ OrganizeStart
    \/ Enumerate
    \/ FilterStep
    \/ ProcessCheck
    \/ MoveItem
    \/ Summarize
    \/ Cancel

\* a step of organize() itself
RunStep == Enumerate \/ FilterStep \/ ProcessCheck \/ MoveItem \/ Summarize

Spec == Init /\ [][Next]_vars

\* the same engine, invoked up to MaxRuns times in a row on the same source
Init2 ==
    InitWith(Configs, Picks(SrcPool, MaxItemsRerun), Picks(PrePool, MaxPre), MaxRuns)

Spec2 == Init2 /\ [][Next]_vars

---------------------------------------------------------------------------
(* What the claims speak of *)

\* organize() has returned after listing, filtering and processing
Returned == pc = "done" /\ run > 0

\* the run was not cancelled: the flag was never set during it
NotCancelled == ~cancelled

\* the invocations of move_item so far in this run
Calls == {calls[i] : i \in DOMAIN calls}

\* the entry with the given identity stands at path p
Holds(f, p, id) == p \in DOMAIN f /\ f[p].id = id

\* where the mover is to put an item of the given name and year
YearDest(year, name) == Append(Append(cfg.target_dir, YearName(year)), name)

\* the path of the source entry of the given name
SourcePath(name) == Append(cfg.source_dir, name)

---------------------------------------------------------------------------
(* The engine under combined filter options *)

\* the filter options, with a target year that no entry of the pools has
FilterOptionsWide ==
    [files_only       : BOOLEAN,
     included_folders : {{}, {NameD, <<"org_docs", ".", "sh">>}},
     excluded_folders : {{}, {NameD}},
     target_year      : {None, 2019, 2020},
     file_types       : {{}, {<<"txt">>, <<"py">>}}]

ConfigsCombined ==
    { [source_dir |-> SourceDir, target_dir |-> t, dry_run |-> d,
       duplicate_mode |-> m, files_only |-> o.files_only,
       included_folders |-> o.included_folders,
       excluded_folders |-> o.excluded_folders,
       target_year |-> o.target_year, file_types |-> o.file_types,
       log_callback |-> "ok"] :
        t \in {SourceDir, OtherDir}, d \in BOOLEAN, m \in Modes,
        o \in {x \in FilterOptionsWide : NumSet(x) <= MaxFiltersCombined} }

InitCombined ==
    InitWith(ConfigsCombined, Picks(SrcPool, MaxItems),
             Picks(PrePool, MaxPreCombined), 1)

SpecCombined == InitCombined /\ [][Next]_vars

---------------------------------------------------------------------------

(* The engine with a log sink that may raise *)

ConfigsSink == {[c EXCEPT !.log_callback = s] : c \in Configs, s \in Sinks}

InitSink ==
    InitWith(ConfigsSink, Picks(SrcPool, MaxItems), Picks(PrePool, MaxPreSink), 1)

SpecSink == InitSink /\ [][Next]_vars

---------------------------------------------------------------------------

(* The engine on names with dots: a directory with an "extension", a file
   with an upper-case extension *)

NameProj == <<"proj", ".", "v2">>
NameB    == <<"b", ".", "TXT">>

SrcPoolDotted ==
    { [name |-> NameA,    entry |-> File(1, MTime(2020, 5)),   sub |-> {}],
      [name |-> NameB,    entry |-> File(41, MTime(2020, 13)), sub |-> {}],
      [name |-> NameProj, entry |-> Dir(42, MTime(2020, 14)),  sub |-> {<<"c">>}],
      [name |-> NameD,    entry |-> Dir(3, MTime(2020, 7)),    sub |-> {<<"c">>}],
      [name |-> NameLnk,  entry |-> Broken(5, MTime(2020, 9)), sub |-> {}] }

PrePoolDotted ==
    { [name |-> NameProj, entry |-> Dir(43, MTime(2020, 15)), sub |-> {}],
      [name |-> NameA,    entry |-> File(11, MTime(2020, 1)), sub |-> {}] }

InitDotted ==
    InitWith(Configs, Picks(SrcPoolDotted, MaxItems),
             Picks(PrePoolDotted, MaxPreDotted), 1)

SpecDotted == InitDotted /\ [][Next]_vars

---------------------------------------------------------------------------

\* C1: after a completed, not cancelled, non-dry run of organize without a
\* destination collision, every kept item whose year resolved to Y stands at
\* target/Y/<name> and no longer at its source path.  (Read in the claim's
\* favour: a run in which a move raised is not counted.)
C1_MovedIntoYearDir ==
    ( /\ Returned /\ NotCancelled /\ ~cfg.dry_run
      /\ stats.errors = 0
      /\ \A c \in Calls : ~c.collided )
    => \A c \in Calls :
         c.year # None =>
           /\ Holds(fs, YearDest(c.year, c.name), c.id)
           /\ ~Holds(fs, SourcePath(c.name), c.id)

---------------------------------------------------------------------------
\* C2: in a run with dry_run set, whatever the duplicate mode and the filter
\* options, the file system stays what it was when the run began: no year
\* directory is made, nothing is moved, renamed or replaced.
C2_DryRunLeavesFs == cfg.dry_run => fs = fs0

\* a dry run has returned after simulating the move of an item whose
\* destination was taken and of one whose destination was free
C2_Witness ==
    /\ Returned /\ cfg.dry_run
    /\ \E c \in Calls : c.outcome = "dry" /\ c.collided
    /\ \E c \in Calls : c.outcome = "dry" /\ ~c.collided

---------------------------------------------------------------------------
\* C3: when organize is run twice in a row without dry_run on the same
\* source and nothing is added in between, the second run keeps and
\* processes no item: its kept list stays empty, it calls the mover for
\* nothing and changes nothing in the file system.  (Read in the claim's
\* favour: the first run was not cancelled and moved everything it kept,
\* skipping nothing and failing nowhere.)
C3_SecondRunKeepsNothing ==
    ( /\ run = 2 /\ ~cfg.dry_run
      /\ ~prev.cancelled
      /\ prev.stats.errors = 0 /\ prev.stats.files_skipped = 0 )
    => /\ items_to_process = << >>
       /\ calls = << >>
       /\ fs = fs0

---------------------------------------------------------------------------
\* the mover has been invoked for the first kept items, one by one in the
\* order of the kept list, each once
C4_CallsFollowKeptList ==
    /\ Len(calls) <= Len(items_to_process)
    /\ \A i \in DOMAIN calls :
         /\ calls[i].name = Last(items_to_process[i][1])
         /\ calls[i].is_dir = items_to_process[i][2]
    /\ pc \in {"check", "move"} => idx = Len(calls) + 1

\* C4: no failure of a single item aborts the run.  The mover is invoked for
\* the kept items in the order of the kept list, each once; whatever the
\* outcome of an invocation (an error, a skip, an unresolved year), no
\* exception leaves move_item and organize goes on to the next turn of its
\* loop; a turn met without a cancellation request and with items left
\* invokes the mover; and when a run whose listing succeeded reaches the
\* summary or has returned without having been cancelled, the mover has
\* been invoked for every kept item.
C4_ItemFailuresDoNotAbort ==
    /\ [](/\ C4_CallsFollowKeptList
          /\ pc # "raised"
          /\ (pc \in {"summary", "done"} /\ listing = "ok" /\ NotCancelled)
               => Len(calls) = Len(items_to_process))
    /\ [][pc = "move" /\ pc' # "move"
            => pc' = "check" /\ Len(calls') = Len(calls) + 1]_vars
    /\ [][pc = "check" /\ pc' # "check"
            => IF idx <= Len(items_to_process) /\ ~cancelled
               THEN pc' = "move" ELSE pc' = "summary"]_vars
    /\ [][pc = "summary" /\ pc' # "summary" => pc' = "done"]_vars

\* a run has returned, not cancelled, in which the first item ended in an
\* error and the second was moved all the same
C4_Witness ==
    /\ Returned /\ NotCancelled /\ listing = "ok"
    /\ Len(calls) = 2
    /\ calls[1].outcome = "error"
    /\ calls[2].outcome = "moved"

---------------------------------------------------------------------------
\* C5: cancellation is honoured at the item boundaries.  Once the flag is
\* set during a run: a turn of the process loop that finds it set starts no
\* move and goes to the summary, so that after the request the mover is
\* invoked at most for the one item whose turn had already passed its check;
\* a turn of the filter loop that finds it set keeps nothing more and leaves
\* the loop, and a request made before or during filtering ends in the
\* summary with nothing moved; a move_item under way when the request comes
\* is carried through.
C5_CancelledAtItemBoundaries ==
    /\ [](cancelled =>
            Len(calls) <= cancelAt.moved + (IF cancelAt.pc = "move" THEN 1 ELSE 0))
    /\ [](cancelled /\ cancelAt.pc \in {"enum", "filter"} =>
            /\ calls = << >> /\ progress = << >>
            /\ stats.files_moved = 0 /\ stats.dirs_moved = 0
            /\ fs = fs0)
    /\ [][cancelled /\ pc = "filter"
            => pc' = "check" /\ items_to_process' = items_to_process]_vars
    /\ [][cancelled /\ pc = "check"
            => pc' = "summary" /\ calls' = calls /\ fs' = fs]_vars
    /\ [][cancelled /\ pc = "move"
            => pc' = "check" /\ Len(calls') = Len(calls) + 1]_vars

\* the request came while the first of two kept items was being moved: that
\* item was moved, the second was not touched, and organize has returned
C5_Witness ==
    /\ Returned /\ cancelled
    /\ cancelAt.pc = "move" /\ cancelAt.moved = 0
    /\ Len(items_to_process) = 2
    /\ Len(calls) = 1 /\ calls[1].outcome = "moved"

---------------------------------------------------------------------------
\* the latest invocation of move_item, as a step of the run leaves it
LastCall == calls'[Len(calls')]

\* a step of the run that is an invocation of move_item
MoveStep == pc = "move" /\ Len(calls') = Len(calls) + 1

\* C6: whenever move_item resolves a collision in rename mode outside a dry
\* run, the path it finally chooses does not exist when the move is made; it
\* lies in the same year directory under another name; what stood at the
\* original destination, with all below it, is left as it was; and when the
\* move goes through, the source item stands at the chosen path and no
\* longer in the source.
C6_RenameDestinationIsFree ==
    [][ ( /\ MoveStep
          /\ cfg.duplicate_mode = "rename" /\ ~cfg.dry_run
          /\ LastCall.collided )
        => LET c    == LastCall
               orig == YearDest(c.year, c.name)
           IN  /\ c.dest \notin DOMAIN fs
               /\ c.dest # orig
               /\ Parent(c.dest) = Parent(orig)
               /\ \A p \in DOMAIN fs :
                    IsPrefix(orig, p) => p \in DOMAIN fs' /\ fs'[p] = fs[p]
               /\ c.outcome \in {"moved", "error"}
               /\ c.outcome = "moved" =>
                    /\ Holds(fs', c.dest, c.id)
                    /\ SourcePath(c.name) \notin DOMAIN fs'
      ]_vars

\* a.txt met a.txt and the first candidate a_20200101_000005.txt in the
\* year directory and was moved there as a_20200101_000005_1.txt
C6_Witness ==
    /\ cfg.duplicate_mode = "rename" /\ ~cfg.dry_run
    /\ \E c \in Calls :
         /\ c.collided /\ c.outcome = "moved"
         /\ c.name = NameA
         /\ Last(c.dest) = <<"a_20200101_000005_1", ".", "txt">>
         /\ Holds(fs, c.dest, c.id)
         /\ Holds(fs, YearDest(c.year, NameA), 11)
         /\ Holds(fs, YearDest(c.year, NameA1), 12)

---------------------------------------------------------------------------
\* the entry that stood at path p when the run began is still there, or
\* stands below the year directory of an item the run has moved
Survives(p) ==
    \E q \in DOMAIN fs :
       /\ fs[q].id = fs0[p].id /\ fs[q].kind = fs0[p].kind
       /\ \/ q = p
          \/ \E c \in Calls :
                /\ c.outcome = "moved"
                /\ IsPrefix(Append(cfg.target_dir, YearName(c.year)), q)

\* C7: in skip, rename and interactive mode every file and directory that
\* stood under source or target when the run began still stands, at its
\* path or below target/<year>/, at every point of the run; in overwrite
\* mode the only entries that go are files, and only once a move has gone
\* through onto a taken destination.
C7_NothingLostOutsideOverwrite ==
    \A p \in DOMAIN fs0 :
       \/ Survives(p)
       \/ /\ cfg.duplicate_mode = "overwrite"
          /\ fs0[p].kind = "file"
          /\ \E c \in Calls : c.collided /\ c.outcome = "moved" /\ ~c.is_dir

\* a run in rename mode has returned after it moved a.txt past the a.txt
\* that stood at the destination, and both are there
C7_Witness ==
    /\ Returned /\ ~cfg.dry_run /\ cfg.duplicate_mode = "rename"
    /\ fs # fs0
    /\ \E c \in Calls :
         /\ c.collided /\ c.outcome = "moved" /\ c.name = NameA
         /\ Holds(fs, c.dest, 1)
         /\ Holds(fs, YearDest(c.year, NameA), 11)
    /\ \A p \in DOMAIN fs0 : Survives(p)

---------------------------------------------------------------------------
\* the entries of the source directory, as the run found them, that carry
\* a reserved name
ReservedEntries ==
    {p \in DOMAIN fs0 : Parent(p) = cfg.source_dir /\ Last(p) \in ReservedNames}

\* C8: an item named org_docs.sh, org_docs_gui.py or file_organizer.py, file
\* or directory, is never in the kept list, never handed to move_item, and
\* stands at its source path throughout the run, under every configuration.
C8_ReservedNamesStay ==
    /\ \A i \in DOMAIN items_to_process :
          Last(items_to_process[i][1]) \notin ReservedNames
    /\ \A c \in Calls : c.name \notin ReservedNames
    /\ \A p \in ReservedEntries : Holds(fs, p, fs0[p].id)

\* a run with the directory org_docs.sh on its allow-list, or with no
\* filter at all, has met a reserved name in the listing and returned
\* after moving the other item
C8_Witness ==
    /\ Returned /\ ~cfg.dry_run
    /\ ReservedEntries # {}
    /\ Len(items) = 2
    /\ cfg.target_year = None /\ cfg.file_types = {}
    /\ Len(calls) = 1 /\ calls[1].outcome = "moved"
    /\ fs # fs0

---------------------------------------------------------------------------
\* C9: when listing the source directory raises, organize returns at once
\* with errors = 1 and every other counter 0, having kept no item, called
\* move_item and the progress callback not once, and left the filesystem
\* as it was.
C9_ListingFailureReturnsAtOnce ==
    listing = "failed" =>
        /\ pc = "done"
        /\ stats = [ZeroStats EXCEPT !.errors = 1]
        /\ fpos = 1 /\ items_to_process = << >>
        /\ calls = << >> /\ progress = << >>
        /\ fs = fs0

\* the listing of a source directory that holds two entries was refused
C9_Witness ==
    /\ listing = "failed" /\ Returned
    /\ Cardinality(Children(fs, cfg.source_dir)) = 2
    /\ stats.errors = 1

---------------------------------------------------------------------------
\* the invocations of move_item that left the item alone and counted it as
\* skipped: no year, or a duplicate in skip or interactive mode
MoverSkips == {i \in DOMAIN calls : calls[i].outcome \in {"nodate", "dupskip"}}

\* the listed items the configured filters dropped (read in the claim's
\* favour: an item dropped for its reserved name is not counted)
FilteredOut ==
    {i \in DOMAIN items :
        /\ ~IsScriptFile(Last(items[i]))
        /\ \A j \in DOMAIN items_to_process : items_to_process[j][1] # items[i]}

\* C10: when a run that listed its source and was not cancelled returns,
\* files_skipped is the number of listed items the filters dropped plus the
\* number of kept items move_item skipped (duplicate, or no year).
C10_SkippedCountsFilteredOut ==
    Returned /\ listing = "ok" /\ ~cancelled =>
        stats.files_skipped = Cardinality(FilteredOut) + Cardinality(MoverSkips)

---------------------------------------------------------------------------
\* the five counters
Counters == {"files_moved", "files_renamed", "files_skipped", "dirs_moved", "errors"}

\* C11: every invocation of organize begins with all five counters at zero,
\* also on an engine whose previous run left some of them above zero, and
\* from there to the return of that invocation no counter ever decreases.
C11_CountersResetThenGrow ==
    /\ [][run' # run => stats' = ZeroStats]_vars
    /\ [](pc = "enum" => stats = ZeroStats)
    /\ [][run' = run => \A k \in Counters : stats'[k] >= stats[k]]_vars

\* a second invocation on the same engine has begun with the counters at
\* zero after a first one that returned with a counter above zero, and has
\* itself returned with a counter above zero
C11_Witness ==
    /\ run = 2 /\ Returned
    /\ prev.stats # ZeroStats
    /\ stats # ZeroStats

---------------------------------------------------------------------------
(* A dry run followed by the real run: the caller looks at what the dry run
   reports, clears the dry-run flag and runs again on the same source
   (org_docs_gui.py, run_organizer: a new configuration and a new engine
   for each run) *)

\* a source entry named as rename mode would name a.txt
SrcPoolRenamed ==
    SrcPool \cup {[name |-> NameA1, entry |-> File(2, MTime(2020, 6)), sub |-> {}]}

\* the caller's second run: the same configuration but for dry_run, a new
\* engine, organize() up to the listing
RerunForReal ==
    /\ pc = "done" /\ run = 1 /\ cfg.dry_run
    /\ cfg' = [cfg EXCEPT !.dry_run = FALSE]
    /\ cancelled' = FALSE
    /\ stats' = ResetStats(stats)
    /\ pc' = "enum"
    /\ items' = << >>
    /\ fpos' = 1
    /\ items_to_process' = << >>
    /\ idx' = 1
    /\ fs0' = fs
    /\ listing' = "none"
    /\ calls' = << >>
    /\ progress' = << >>
    /\ run' = run + 1
    /\ prev' = [stats |-> stats, cancelled |-> cancelled,
                items |-> items, listing |-> listing, fs0 |-> fs0]
    /\ cancelAt' = NoCancel
    /\ UNCHANGED <<fs, runsLeft>>

InitDryFirst ==
    InitWith({c \in Configs : c.dry_run /\ NumSet(c) <= MaxFiltersDryFirst},
             Picks(SrcPoolRenamed, MaxItems), Picks(PrePool, MaxPreDryFirst), 1)

NextDryFirst == Next \/ RerunForReal

SpecDryFirst == InitDryFirst /\ [][NextDryFirst]_vars

\* C12: when a dry run and then the real run of the same configuration
\* have returned, both from the same file system, with the same listing,
\* neither cancelled and the real one without an error, the real run's
\* renamed and skipped counters are those the dry run reported.
C12_DryRunPredictsCounters ==
    ( /\ run = 2 /\ Returned
      /\ prev.listing = "ok" /\ listing = "ok"
      /\ prev.items = items /\ prev.fs0 = fs0
      /\ ~prev.cancelled /\ ~cancelled
      /\ stats.errors = 0 )
    => /\ stats.files_renamed = prev.stats.files_renamed
       /\ stats.files_skipped = prev.stats.files_skipped

---------------------------------------------------------------------------
\* C13: in skip mode, whenever move_item finds the destination
\* target/<year>/<name> of a kept item taken, the item stays at its source
\* path, the file system (the entry at the destination and the rest of the
\* target tree with it) is left as it was, files_skipped grows by exactly 1
\* and no other counter changes.
C13_SkipLeavesAllInPlace ==
    [][ ( /\ MoveStep
          /\ cfg.duplicate_mode = "skip"
          /\ LastCall.collided )
        => /\ LastCall.outcome = "dupskip"
           /\ fs' = fs
           /\ Holds(fs', SourcePath(LastCall.name), LastCall.id)
           /\ YearDest(LastCall.year, LastCall.name) \in DOMAIN fs'
           /\ stats' = [stats EXCEPT !.files_skipped = @ + 1]
      ]_vars

\* a real run in skip mode has returned after a.txt met the a.txt that
\* stood in the year directory: both are where they were, skipped = 1
C13_Witness ==
    /\ Returned /\ ~cfg.dry_run /\ cfg.duplicate_mode = "skip"
    /\ \E c \in Calls :
         /\ c.collided /\ c.outcome = "dupskip" /\ c.name = NameA
         /\ Holds(fs, SourcePath(NameA), 1)
         /\ Holds(fs, YearDest(c.year, NameA), 11)
    /\ stats.files_skipped = 1

---------------------------------------------------------------------------
\* the configuration of the run with skip for its duplicate mode
AsSkip == [cfg EXCEPT !.duplicate_mode = "skip"]

\* C14: a run in interactive mode goes as the run in skip mode: at every
\* turn of the filter loop the two keep or drop the item alike, at every
\* invocation of move_item they leave the same file system, the same five
\* counters and the same outcome, whatever the environment does; and an
\* interactive collision leaves the file system as it was, counts the item
\* as skipped and neither renames, overwrites nor moves it.
C14_InteractiveGoesAsSkip ==
    /\ [](cfg.duplicate_mode = "interactive" /\ pc = "filter" /\ ~cancelled =>
            should_process_item(fs, cfg, items[fpos], IsDir(fs, items[fpos]))
              = should_process_item(fs, AsSkip, items[fpos], IsDir(fs, items[fpos])))
    /\ [](cfg.duplicate_mode = "interactive" /\ pc = "move" =>
            \A io \in IoOutcomes :
               move_item(fs, cfg, stats, items_to_process[idx][1],
                         items_to_process[idx][2], io)
                 = move_item(fs, AsSkip, stats, items_to_process[idx][1],
                             items_to_process[idx][2], io))
    /\ [][ ( /\ MoveStep
             /\ cfg.duplicate_mode = "interactive"
             /\ LastCall.collided )
           => /\ LastCall.outcome = "dupskip"
              /\ fs' = fs
              /\ stats' = [stats EXCEPT !.files_skipped = @ + 1]
         ]_vars

\* a real run in interactive mode has returned after the directory d met
\* the d that stood in the year directory: nothing moved, skipped = 1
C14_Witness ==
    /\ Returned /\ ~cfg.dry_run /\ cfg.duplicate_mode = "interactive"
    /\ \E c \in Calls :
         /\ c.collided /\ c.outcome = "dupskip" /\ c.name = NameD /\ c.is_dir
         /\ Holds(fs, SourcePath(NameD), 3)
    /\ fs = fs0
    /\ stats = [ZeroStats EXCEPT !.files_skipped = 1]

---------------------------------------------------------------------------
\* C15: in overwrite mode outside a dry run, whenever move_item finds the
\* destination target/<year>/<name> of a kept item, file or directory,
\* taken and moves the item, that path then holds the source item in place
\* of what stood there, the source path is gone, the matching moved counter
\* has grown by 1 and renamed and skipped are as before.  (Read in the
\* claim's favour: an invocation in which mkdir or the move raised is not
\* counted.)
C15_OverwriteReplaces ==
    [][ ( /\ MoveStep
          /\ cfg.duplicate_mode = "overwrite" /\ ~cfg.dry_run
          /\ LastCall.collided
          /\ LastCall.outcome = "moved" )
        => LET c == LastCall
           IN  /\ Holds(fs', YearDest(c.year, c.name), c.id)
               /\ SourcePath(c.name) \notin DOMAIN fs'
               /\ stats' = IF c.is_dir
                           THEN [stats EXCEPT !.dirs_moved = @ + 1]
                           ELSE [stats EXCEPT !.files_moved = @ + 1]
      ]_vars

---------------------------------------------------------------------------
\* C16: with a target year configured, every item of the kept list, file
\* or directory, under every allow- and deny-list, resolved to that year
\* when the run began.
C16_KeptItemsMatchTargetYear ==
    cfg.target_year # None =>
        \A i \in DOMAIN items_to_process :
            get_item_year(fs0, items_to_process[i][1]) = cfg.target_year

---------------------------------------------------------------------------
\* the item the filter loop is about to look at
FilterItem == items[fpos]

\* the configuration of the run without its deny-list
NoDenyList == [cfg EXCEPT !.excluded_folders = {}]

\* C17: a directory named on both the allow-list and the deny-list is put
\* on the kept list when files_only is off and its name is not reserved;
\* and with an allow-list configured the filter decides on every directory
\* as it would without the deny-list.
C17_AllowListWins ==
    /\ [][ ( /\ pc = "filter" /\ ~cancelled /\ fpos' = fpos + 1
             /\ IsDir(fs, FilterItem)
             /\ Last(FilterItem) \in cfg.included_folders \cap cfg.excluded_folders
             /\ ~cfg.files_only
             /\ Last(FilterItem) \notin ReservedNames )
           => items_to_process' = Append(items_to_process, <<FilterItem, TRUE>>)
         ]_vars
    /\ [](( /\ pc = "filter" /\ ~cancelled
            /\ IsDir(fs, FilterItem)
            /\ cfg.included_folders # {} )
          => should_process_item(fs, cfg, FilterItem, TRUE)
               = should_process_item(fs, NoDenyList, FilterItem, TRUE))

\* a real run with d on both lists has kept the directory d and moved it
C17_Witness ==
    /\ Returned /\ ~cfg.dry_run
    /\ NameD \in cfg.included_folders \cap cfg.excluded_folders
    /\ \E c \in Calls : c.name = NameD /\ c.is_dir /\ c.outcome = "moved"
    /\ SourcePath(NameD) \notin DOMAIN fs

---------------------------------------------------------------------------
\* the directories that stood directly under source_dir when the run began
SourceDirs0 == {p \in DOMAIN fs0 : Parent(p) = cfg.source_dir /\ fs0[p].kind = "dir"}

\* the directory at p and all that was in it are where they were (what the
\* run has added to it does not count)
InPlace(p) ==
    \A q \in DOMAIN fs0 :
        IsPrefix(p, q) => q \in DOMAIN fs /\ fs[q].id = fs0[q].id
                                          /\ fs[q].kind = fs0[q].kind

---------------------------------------------------------------------------
\* C19: whatever the log sink does, no exception leaves organize: after a
\* listing that succeeded the run goes on through every kept item to the
\* summary and returns its statistics.
C19_SinkFailureNotFatal ==
    listing = "ok" => pc # "raised"

---------------------------------------------------------------------------
\* C20: no request made by cancel() is lost: a request made once the
\* engine stands ready, and before organize() has executed its first
\* statement, is still standing when organize() has begun, so that the
\* loops, which stop on nothing but the flag, stop at their first check.
C20_CancelNeverLost ==
    [][cancelled /\ pc = "idle" => cancelled']_vars

---------------------------------------------------------------------------
\* the k-th name of the claimed sequence for an item of the given name:
\* <base>_T<ext>, <base>_T_1<ext>, ... for a file, the timestamp (and the
\* counter) appended to the whole name for a directory
ClaimedCandidate(name, is_dir, T, k) ==
    IF is_dir
    THEN AppendStr(name, "_" \o T \o (IF k = 0 THEN "" ELSE "_" \o ToStr(k)))
    ELSE RenameCandidate(Stem(name), T, Suffix(name), k)

\* C21: in rename mode the destination chosen for a collision is the first
\* path that does not exist in the claimed sequence of names in the year
\* directory, T being the source item's modification time as
\* YYYYMMDD_HHMMSS, and files_renamed grows by exactly 1 for the collision.
C21_RenameNameSynthesis ==
    [][ ( /\ MoveStep
          /\ cfg.duplicate_mode = "rename"
          /\ LastCall.collided )
        => LET c    == LastCall
               ydir == Append(cfg.target_dir, YearName(c.year))
               T    == Strftime(fs[SourcePath(c.name)].mtime)
               at(k) == Append(ydir, ClaimedCandidate(c.name, c.is_dir, T, k))
           IN  /\ \E k \in 0..Cardinality(DOMAIN fs) :
                    /\ c.dest = at(k)
                    /\ at(k) \notin DOMAIN fs
                    /\ \A j \in 0..(k - 1) : at(j) \in DOMAIN fs
               /\ stats'.files_renamed = stats.files_renamed + 1
      ]_vars

---------------------------------------------------------------------------
\* the kept item move_item is about to be invoked for
MoveArg == items_to_process[idx][1]

\* the item's modification time cannot be read, or shows a year outside
\* 1900..2100
YearUnresolvable(f, p) ==
    \/ f[p].broken
    \/ f[p].mtime.year < 1900
    \/ f[p].mtime.year > 2100

\* C22: when move_item is invoked for a kept item whose modification time
\* cannot be read or whose year lies outside 1900..2100, the file system is
\* left as it was (no year directory is made, the item is not moved),
\* files_skipped grows by exactly 1, no other counter changes, and
\* organize goes on to the next turn of its loop.
C22_NoYearNoMove ==
    [][ ( /\ MoveStep
          /\ YearUnresolvable(fs, MoveArg) )
        => /\ LastCall.outcome = "nodate"
           /\ fs' = fs
           /\ stats' = [stats EXCEPT !.files_skipped = @ + 1]
           /\ pc' = "check" /\ idx' = idx + 1
      ]_vars

\* a real run has returned after it skipped the file of 1899 and then
\* moved the other item
C22_Witness ==
    /\ Returned /\ ~cfg.dry_run
    /\ Len(calls) = 2
    /\ calls[1].name = NameOld /\ calls[1].outcome = "nodate"
    /\ calls[2].outcome = "moved"
    /\ Holds(fs, SourcePath(NameOld), 4)
    /\ stats.files_skipped = 1 /\ stats.errors = 0

---------------------------------------------------------------------------
\* C23: in a dry run files_moved and dirs_moved are 0 throughout, and so
\* when organize returns, while every collision met by move_item adds
\* exactly 1 to files_renamed in rename mode and exactly 1 to files_skipped
\* in skip mode.
C23_DryRunCountsDecisionsOnly ==
    /\ [](cfg.dry_run => stats.files_moved = 0 /\ stats.dirs_moved = 0)
    /\ [][ ( /\ MoveStep /\ cfg.dry_run
             /\ LastCall.collided
             /\ cfg.duplicate_mode = "rename" )
           => stats' = [stats EXCEPT !.files_renamed = @ + 1]
         ]_vars
    /\ [][ ( /\ MoveStep /\ cfg.dry_run
             /\ LastCall.collided
             /\ cfg.duplicate_mode = "skip" )
           => stats' = [stats EXCEPT !.files_skipped = @ + 1]
         ]_vars

\* a dry run in rename mode has returned after a.txt and d each met an
\* entry of their name: renamed = 2, nothing moved
C23_Witness ==
    /\ Returned /\ cfg.dry_run /\ cfg.duplicate_mode = "rename"
    /\ Len(calls) = 2
    /\ \A i \in DOMAIN calls : calls[i].collided /\ calls[i].outcome = "dry"
    /\ stats = [ZeroStats EXCEPT !.files_renamed = 2]
    /\ fs = fs0

---------------------------------------------------------------------------
\* C24: the progress sink is invoked once per kept item whose processing
\* started, before that item's move, with current = 1, 2, ... in increasing
\* order and total = the length of the kept list; a run that was never
\* cancelled reports every kept item; the report changes nothing else, and
\* the mover is invoked for the kept items in list order whatever was
\* reported.
C24_ProgressOncePerStartedItem ==
    /\ [](/\ progress = [i \in 1..Len(progress) |-> <<i, Len(items_to_process)>>]
          /\ Len(progress) = Len(calls) + B2N(pc = "move")
          /\ Len(progress) <= Len(items_to_process)
          /\ \A i \in DOMAIN calls : calls[i].name = Last(items_to_process[i][1])
          /\ (Returned /\ NotCancelled /\ listing = "ok")
                => Len(progress) = Len(items_to_process))
    /\ [][ progress' # progress
           => UNCHANGED <<fs, stats, cancelled, items_to_process, idx, calls>>
         ]_vars
    /\ [][ MoveStep => /\ progress' = progress
                       /\ progress[Len(progress)] = <<idx, Len(items_to_process)>>
         ]_vars

\* an uncancelled run over two kept items has returned after the reports
\* (1, 2) and (2, 2), each followed by a move
C24_Witness ==
    /\ Returned /\ NotCancelled
    /\ Len(items_to_process) = 2
    /\ progress = << <<1, 2>>, <<2, 2>> >>
    /\ Len(calls) = 2
    /\ \A i \in DOMAIN calls : calls[i].outcome = "moved"

\* a cancelled run over two kept items: only the first was reported and
\* processed
C24_WitnessCancelled ==
    /\ Returned /\ cancelled
    /\ Len(items_to_process) = 2
    /\ progress = << <<1, 2>> >>
    /\ Len(calls) = 1

---------------------------------------------------------------------------
\* the extension of a name: what follows its last dot, the dot left out;
\* empty when the name has no dot after its first character or ends in one
Extension(name) ==
    LET dots == {i \in 2..(Len(name) - 1) : name[i] = "."}
    IN  IF dots = {} THEN << >>
        ELSE LET last == CHOOSE i \in dots : \A j \in dots : j <= i
             IN  SubSeq(name, last + 1, Len(name))

\* the configuration of the run without its extension set
NoFileTypes == [cfg EXCEPT !.file_types = {}]

\* no filter but the extension set is configured
OnlyFileTypes ==
    /\ ~cfg.files_only /\ cfg.target_year = None
    /\ cfg.included_folders = {} /\ cfg.excluded_folders = {}

\* C25: with an extension set configured every file on the kept list has
\* its extension, as written (case kept, dot left out), in the set, and a
\* file with no other ground against it is kept exactly when it has; the
\* filter decides on every directory as it would without the extension
\* set, so a directory is kept whatever its name ends in.
C25_ExtensionFilterFilesOnly ==
    /\ [](cfg.file_types # {}
          => \A j \in DOMAIN items_to_process :
                ~items_to_process[j][2]
                  => Extension(Last(items_to_process[j][1])) \in cfg.file_types)
    /\ [][ ( /\ pc = "filter" /\ ~cancelled /\ fpos' = fpos + 1
             /\ ~IsDir(fs, FilterItem)
             /\ cfg.file_types # {} /\ OnlyFileTypes
             /\ Last(FilterItem) \notin ReservedNames )
           => items_to_process' =
                 IF Extension(Last(FilterItem)) \in cfg.file_types
                 THEN Append(items_to_process, <<FilterItem, FALSE>>)
                 ELSE items_to_process
         ]_vars
    /\ [](( /\ pc = "filter" /\ ~cancelled
            /\ IsDir(fs, FilterItem) )
          => should_process_item(fs, cfg, FilterItem, TRUE)
               = should_process_item(fs, NoFileTypes, FilterItem, TRUE))
    /\ [][ ( /\ pc = "filter" /\ ~cancelled /\ fpos' = fpos + 1
             /\ IsDir(fs, FilterItem)
             /\ OnlyFileTypes
             /\ Last(FilterItem) \notin ReservedNames )
           => items_to_process' = Append(items_to_process, <<FilterItem, TRUE>>)
         ]_vars

\* a real run with the set {txt, py} over b.TXT and the directory proj.v2
\* has returned: b.TXT was dropped by the filter and stands where it stood,
\* proj.v2 was kept and moved
C25_Witness ==
    /\ Returned /\ ~cfg.dry_run
    /\ cfg.file_types = {<<"txt">>, <<"py">>}
    /\ Len(items) = 2
    /\ \E i \in DOMAIN items : Last(items[i]) = NameB
    /\ Len(items_to_process) = 1
    /\ Len(calls) = 1
    /\ calls[1].name = NameProj /\ calls[1].is_dir /\ calls[1].outcome = "moved"
    /\ Holds(fs, SourcePath(NameB), 41)
    /\ SourcePath(NameProj) \notin DOMAIN fs

---------------------------------------------------------------------------
\* the four counters of an item's outcome
OutcomeCounters == {"files_moved", "dirs_moved", "files_skipped", "errors"}

OutcomeSum(st) == st.files_moved + st.dirs_moved + st.files_skipped + st.errors

\* C26: in a run that is no dry run every invocation of move_item adds 1 to
\* exactly one of files_moved, dirs_moved, files_skipped and errors and
\* leaves the other three alone; so, the source listed, the four add up to
\* the number of invocations so far, and files_renamed is at most that
\* number.
C26_OneOutcomePerItem ==
    /\ [][ (MoveStep /\ ~cfg.dry_run)
           => \E k \in OutcomeCounters :
                 /\ stats'[k] = stats[k] + 1
                 /\ \A j \in OutcomeCounters \ {k} : stats'[j] = stats[j]
         ]_vars
    /\ []((~cfg.dry_run /\ listing = "ok" /\ run > 0)
          => /\ OutcomeSum(stats) = Len(calls)
             /\ stats.files_renamed <= Len(calls))

\* a real run in rename mode has returned after one item without a date
\* and one whose move failed after its destination was renamed: skipped 1,
\* errors 1, renamed 1, nothing moved
C26_Witness ==
    /\ Returned /\ ~cfg.dry_run /\ cfg.duplicate_mode = "rename"
    /\ Len(calls) = 2
    /\ \E i \in DOMAIN calls : calls[i].outcome = "nodate"
    /\ \E i \in DOMAIN calls : calls[i].outcome = "error" /\ calls[i].collided
    /\ stats = [ZeroStats EXCEPT !.files_skipped = 1, !.errors = 1,
                                 !.files_renamed = 1]

---------------------------------------------------------------------------
\* C27: when an invocation of move_item ends by adding 1 to errors, the
\* item stands at its source path as before, and no entry was added to the
\* filesystem (no year directory, no destination entry) and none replaced.
C27_FailedItemLeavesFsAlone ==
    [][ (MoveStep /\ LastCall.outcome = "error")
        => /\ MoveArg \in DOMAIN fs'
           /\ DOMAIN fs' = DOMAIN fs
           /\ \A p \in DOMAIN fs : /\ fs'[p].id = fs[p].id
                                   /\ fs'[p].kind = fs[p].kind
      ]_vars

=============================================================================
